---- MODULE Spec2Model ----
(***************************************************************************)
(* Trivia game (src/script.js): question fetching, form submission,        *)
(* score persistence in localStorage and the sorted scoreboard with its    *)
(* top-score highlight.                                                    *)
(***************************************************************************)
EXTENDS Integers, Sequences, FiniteSets, TLC

\* ------------------------------------------------------------------ bounds
\* most questions one API response carries
MaxQuestions == 1
\* most fetches started on one page (the initial one and one per newPlayer)
MaxFetches == 2
\* longest persisted sequence the ranking specification starts from
MaxRankLen == 3
\* largest total of a record in those sequences
MaxRankTotal == 2
\* largest total of the single-record sequences it also starts from
MaxPercentTotal == 8

\* ------------------------------------------------------------- value sets
\* topPercent before any score is seen (let topPercent = null)
NoPercent == -1

SortPrefs == {"newest", "oldest", "highest", "lowest"}

\* a missing localStorage key (getItem returns null, which is falsy as "" is)
NoName == <<>>

\* what the user can have typed into the name field, as character sequences
NameInputs == {<<>>, <<" ">>, <<" ", "a", " ">>}

\* question objects the API can return
ApiQuestions == {[correct_answer |-> "A", incorrect_answers |-> <<"B">>]}

\* ------------------------------------------------------------ pure helpers
RECURSIVE TrimStart(_)
TrimStart(s) ==
    IF s # <<>> /\ Head(s) = " " THEN TrimStart(Tail(s)) ELSE s

RECURSIVE TrimEnd(_)
TrimEnd(s) ==
    IF s # <<>> /\ s[Len(s)] = " " THEN TrimEnd(SubSeq(s, 1, Len(s) - 1)) ELSE s

\* mutant of Trim: the value is used as typed
TrimForgotten(s) == s

\* String.prototype.trim
Trim(s) == TrimEnd(TrimStart(s))

\* the set of all sequences over S of length at most n
SeqsUpTo(S, n) == UNION {[1..k -> S] : k \in 0..n}

\* ---------------------------------------------------------------- storage
\* The text under the "scores" key.  kind "absent": no key; "garbage": text
\* JSON.parse rejects; "null", "object": valid JSON that is no array;
\* "array": a JSON array whose items are the serialized records.
NoText == [kind |-> "absent", items |-> <<>>]

CorruptTexts ==
    {[kind |-> k, items |-> <<>>] : k \in {"garbage", "null", "object"}}

\* JSON.stringify of an array of score records: each record becomes the
\* tuple of its values in key order name, correct, total, ts.
Stringify(scoresArray) ==
    [kind |-> "array",
     items |-> [i \in 1..Len(scoresArray) |->
                  <<scoresArray[i].name, scoresArray[i].correct,
                    scoresArray[i].total, scoresArray[i].ts>>]]

\* mutant of Parse: the values of correct and total are read crosswise
ParseSwapped(text) ==
    IF text.kind = "garbage"
    THEN [threw |-> TRUE, tag |-> "none", recs |-> <<>>]
    ELSE IF text.kind = "array"
    THEN [threw |-> FALSE, tag |-> "array",
          recs |-> [i \in 1..Len(text.items) |->
                      [name |-> text.items[i][1], correct |-> text.items[i][3],
                       total |-> text.items[i][2], ts |-> text.items[i][4]]]]
    ELSE [threw |-> FALSE, tag |-> text.kind, recs |-> <<>>]

\* JSON.parse: threw is the SyntaxError; otherwise tag is the type of the
\* parsed value and recs its records when it is an array.
Parse(text) ==
    IF text.kind = "garbage"
    THEN [threw |-> TRUE, tag |-> "none", recs |-> <<>>]
    ELSE IF text.kind = "array"
    THEN [threw |-> FALSE, tag |-> "array",
          recs |-> [i \in 1..Len(text.items) |->
                      [name |-> text.items[i][1], correct |-> text.items[i][2],
                       total |-> text.items[i][3], ts |-> text.items[i][4]]]]
    ELSE [threw |-> FALSE, tag |-> text.kind, recs |-> <<>>]

\* getScoresFromStorage: the value it returns (tag "array" with its records,
\* or the non-array value JSON.parse produced).
getScoresFromStorage(text) ==
    IF text.kind = "absent"
    THEN [tag |-> "array", recs |-> <<>>]
    ELSE LET p == Parse(text)
         IN IF p.threw
            THEN [tag |-> "array", recs |-> <<>>]
            ELSE [tag |-> p.tag, recs |-> p.recs]

\* setScoresInStorage: the text written under "scores"
setScoresInStorage(scoresArray) == Stringify(scoresArray)

\* getSortPreference: pref || "newest"
getSortPreference(stored) == IF stored = "absent" THEN "newest" ELSE stored

\* ------------------------------------------------------------ displayScores
\* a.total ? a.correct / a.total : 0, kept exact as numerator / denominator
RatioNum(s) == IF s.total = 0 THEN 0 ELSE s.correct
RatioDen(s) == IF s.total = 0 THEN 1 ELSE s.total

\* the sign of ratio(a) - ratio(b)
RatioDiff(a, b) == RatioNum(a) * RatioDen(b) - RatioNum(b) * RatioDen(a)

\* mutant of Compare: highest breaks ties oldest first
CompareTieOldest(pref, a, b) ==
    CASE pref = "newest" -> b.ts - a.ts
      [] pref = "oldest" -> a.ts - b.ts
      [] pref = "highest" ->
            IF RatioDiff(b, a) # 0 THEN RatioDiff(b, a) ELSE a.ts - b.ts
      [] pref = "lowest" ->
            IF RatioDiff(a, b) # 0 THEN RatioDiff(a, b) ELSE a.ts - b.ts
      [] OTHER -> 0

\* mutant of Compare: highest and lowest compare the correct counts
CompareByCorrect(pref, a, b) ==
    CASE pref = "newest" -> b.ts - a.ts
      [] pref = "oldest" -> a.ts - b.ts
      [] pref = "highest" ->
            IF b.correct # a.correct THEN b.correct - a.correct ELSE b.ts - a.ts
      [] pref = "lowest" ->
            IF a.correct # b.correct THEN a.correct - b.correct ELSE a.ts - b.ts
      [] OTHER -> 0

\* the comparator handed to scores.sort for each preference: negative puts a
\* first, positive puts b first, zero keeps their order
Compare(pref, a, b) ==
    CASE pref = "newest" -> b.ts - a.ts
      [] pref = "oldest" -> a.ts - b.ts
      [] pref = "highest" ->
            IF RatioDiff(b, a) # 0 THEN RatioDiff(b, a) ELSE b.ts - a.ts
      [] pref = "lowest" ->
            IF RatioDiff(a, b) # 0 THEN RatioDiff(a, b) ELSE a.ts - b.ts
      [] OTHER -> 0

\* mutant of InsertSorted: a record that compares equal to one already
\* placed is dropped
RECURSIVE InsertSortedDedup(_, _, _)
InsertSortedDedup(pref, x, sorted) ==
    IF sorted = <<>> THEN <<x>>
    ELSE IF Compare(pref, Head(sorted), x) = 0 THEN sorted
    ELSE IF Compare(pref, Head(sorted), x) < 0
         THEN <<Head(sorted)>> \o InsertSortedDedup(pref, x, Tail(sorted))
         ELSE <<x>> \o sorted

RECURSIVE InsertSorted(_, _, _)
InsertSorted(pref, x, sorted) ==
    IF sorted = <<>> THEN <<x>>
    ELSE IF Compare(pref, Head(sorted), x) <= 0
         THEN <<Head(sorted)>> \o InsertSorted(pref, x, Tail(sorted))
         ELSE <<x>> \o sorted

RECURSIVE SortFrom(_, _, _)
SortFrom(pref, done, rest) ==
    IF rest = <<>> THEN done
    ELSE SortFrom(pref, InsertSorted(pref, Head(rest), done), Tail(rest))

\* Array.prototype.sort with the preference's comparator (a stable sort)
SortScores(pref, scores) == SortFrom(pref, <<>>, scores)

\* mutant of Percent: Math.floor in place of Math.round
PercentFloor(s) == (100 * RatioNum(s)) \div RatioDen(s)

\* Math.round(ratio * 100): nearest integer, halves up
Percent(s) == (200 * RatioNum(s) + RatioDen(s)) \div (2 * RatioDen(s))

RECURSIVE ReduceBest(_, _)
ReduceBest(best, scores) ==
    IF scores = <<>> THEN best
    ELSE ReduceBest(IF Percent(Head(scores)) > best
                    THEN Percent(Head(scores)) ELSE best,
                    Tail(scores))

\* mutant of TopPercent: the percent of the first record after sorting
TopPercentOfFirst(scores) ==
    IF Len(scores) > 0 THEN Percent(Head(scores)) ELSE NoPercent

\* topPercent: null for no scores, else the reduce starting from 0
TopPercent(scores) ==
    IF Len(scores) > 0 THEN ReduceBest(0, scores) ELSE NoPercent

\* the flag of one row: tr.classList.add("top")
IsTop(topPercent, s) == topPercent # NoPercent /\ Percent(s) = topPercent

\* the rows appended to tbody, in order; ts is the timestamp of the record a
\* row was built from (not shown in the table)
RenderRows(scores, topPercent) ==
    [i \in 1..Len(scores) |->
        [name |-> scores[i].name, correct |-> scores[i].correct,
         total |-> scores[i].total, ts |-> scores[i].ts,
         top |-> IsTop(topPercent, scores[i])]]

\* mutant of TopCount: every row is counted
TopCountAll(renderedRows) == Len(renderedRows)

\* topCount: the rows that got the top class
TopCount(renderedRows) ==
    Cardinality({i \in 1..Len(renderedRows) : renderedRows[i].top})

\* the top-score summary box when there are no scores
EmptyTopBox == [hidden |-> TRUE, percent |-> NoPercent, count |-> 0]

\* displayScores: what it leaves in tbody and in the top-score box, and
\* whether it threw (a value that is no array has no sort/length/forEach;
\* tbody was emptied before the throw and the box is left as it was).
DisplayScores(text, storedPref, oldBox) ==
    LET got == getScoresFromStorage(text)
        pref == getSortPreference(storedPref)
        scores == SortScores(pref, got.recs)
        topPercent == TopPercent(scores)
        rendered == RenderRows(scores, topPercent)
    IN IF got.tag # "array"
       THEN [threw |-> TRUE, rows |-> <<>>, box |-> oldBox]
       ELSE [threw |-> FALSE, rows |-> rendered,
             box |-> IF Len(scores) = 0 THEN EmptyTopBox
                     ELSE [hidden |-> FALSE, percent |-> topPercent,
                           count |-> TopCount(rendered)]]

\* ---------------------------------------------------------------- questions
\* createAnswerOptions: the radio inputs of one question, one per answer;
\* correct is the data-correct attribute.  The order the random comparator
\* leaves them in is not kept: no handler reads it.
createAnswerOptions(correctAnswer, incorrectAnswers) ==
    LET allAnswers == <<correctAnswer>> \o incorrectAnswers
    IN {[value |-> allAnswers[k], correct |-> allAnswers[k] = correctAnswer]
           : k \in 1..Len(allAnswers)}

\* a radio group with no input checked
NoAnswer == "none"

\* displayQuestions: one block per question; opts are its radio inputs, sel
\* the value of the checked one, invalid the class of the block
displayQuestions(results) ==
    [i \in 1..Len(results) |->
        [opts |-> createAnswerOptions(results[i].correct_answer,
                                      results[i].incorrect_answers),
         sel |-> NoAnswer, invalid |-> FALSE]]

\* the answers a user can pick among
AnswerValues ==
    UNION {{q.correct_answer} \cup {q.incorrect_answers[k] :
                                     k \in 1..Len(q.incorrect_answers)}
              : q \in ApiQuestions}

\* how a fetch can end: "ok" carries a results list; "rejected" is a network
\* error, an unparsable body or a body that is JSON null (the continuation
\* throws before displayQuestions); "noresults" is JSON without a results
\* list (displayQuestions empties the container, then forEach throws)
FetchOutcomes == {"ok", "rejected", "noresults"}

\* ------------------------------------------------------------------- state
VARIABLES
    pc,               \* "unloaded", "ready" (listeners attached) or "crashed"
    uncaught,         \* an exception escaped a handler
    lsScores,         \* localStorage "scores" (a text, see NoText)
    lsSort,           \* localStorage "scoreSort" ("absent" or a preference)
    lsUser,           \* localStorage "triviaCurrentUser" (NoName: absent)
    usernameValue,    \* usernameInput.value
    sortSelectValue,  \* sortSelect.value
    questions,        \* the div blocks of #question-container
    shownGen,         \* the fetch whose results fill the container, 0: none
    started,          \* fetches started so far; the latest has this number
    inflight,         \* the fetches not yet settled
    loadingHidden,    \* #loading-container has class hidden
    questionsHidden,  \* #question-container has class hidden
    rows,             \* the rows of #score-table tbody
    topScoreBox,      \* #top-score: hidden, and the percent and count shown
    resultSummary,    \* #result-summary: hidden, and the result it states
    newPlayerHidden,  \* #new-player has class hidden
    submitDisabled,   \* #submit-game is disabled
    lastAlert,        \* the last alert shown: "none", "answers" or "name"
    now               \* the clock: Date.now() returns now + 1 and advances it

vars == <<pc, uncaught, lsScores, lsSort, lsUser, usernameValue,
          sortSelectValue, questions, shownGen, started, inflight,
          loadingHidden, questionsHidden, rows, topScoreBox, resultSummary,
          newPlayerHidden, submitDisabled, lastAlert, now>>

storageVars == <<lsScores, lsSort, lsUser>>
fetchVars == <<started, inflight, loadingHidden, questionsHidden>>
boardVars == <<rows, topScoreBox>>

NoResult == [hidden |-> TRUE, name |-> NoName, correct |-> 0, total |-> 0]

Record(name, correct, total, ts) ==
    [name |-> name, correct |-> correct, total |-> total, ts |-> ts]

\* persisted sequences a page of the full specification can be loaded with
InitScoreSeqs == {<<Record(<<"a">>, 1, 2, 1), Record(<<"b">>, 1, 1, 1)>>}

\* the page as parsed, before DOMContentLoaded runs: the New Player button
\* and the result summary start hidden (newPlayer hides the button "again",
\* handleFormSubmit makes the summary visible), the submit button enabled,
\* the table and the question container empty
PageParsed ==
    /\ pc = "unloaded"
    /\ uncaught = FALSE
    /\ usernameValue = <<>>
    /\ sortSelectValue = "newest"
    /\ questions = <<>>
    /\ shownGen = 0
    /\ started = 0
    /\ inflight = {}
    /\ loadingHidden = TRUE
    /\ questionsHidden = FALSE
    /\ rows = <<>>
    /\ topScoreBox = EmptyTopBox
    /\ resultSummary = NoResult
    /\ newPlayerHidden = TRUE
    /\ submitDisabled = FALSE
    /\ lastAlert = "none"
    /\ now = 1

Init ==
    /\ PageParsed
    /\ lsScores \in {NoText} \cup CorruptTexts
                      \cup {Stringify(s) : s \in InitScoreSeqs}
    /\ lsSort \in {"absent"} \cup SortPrefs
    /\ lsUser \in {NoName, <<"a">>}

\* ----------------------------------------------------------------- actions
\* the DOMContentLoaded listener: checkUsername, applySavedSortPreference,
\* fetchQuestions, displayScores, then the listeners are attached; an
\* exception out of displayScores ends the listener before they are.
DOMContentLoaded ==
    /\ pc = "unloaded"
    /\ LET d == DisplayScores(lsScores, lsSort, topScoreBox)
       IN /\ usernameValue' = IF lsUser # NoName THEN lsUser ELSE usernameValue
          /\ sortSelectValue' = getSortPreference(lsSort)
          /\ loadingHidden' = FALSE
          /\ questionsHidden' = TRUE
          /\ started' = started + 1
          /\ inflight' = inflight \cup {started + 1}
          /\ rows' = d.rows
          /\ topScoreBox' = d.box
          /\ uncaught' = d.threw
          /\ pc' = IF d.threw THEN "crashed" ELSE "ready"
    /\ UNCHANGED <<storageVars, questions, shownGen, resultSummary,
                   newPlayerHidden, submitDisabled, lastAlert, now>>

\* typing into the name field; the input listener stores the trimmed value
UsernameInput(value) ==
    /\ pc = "ready"
    /\ value # usernameValue
    /\ usernameValue' = value
    /\ lsUser' = Trim(value)
    /\ UNCHANGED <<pc, uncaught, lsScores, lsSort, sortSelectValue, questions,
                   shownGen, fetchVars, boardVars, resultSummary,
                   newPlayerHidden, submitDisabled, lastAlert, now>>

\* mutant of SortChange: the sorted array is written back to storage
SortChangeSaving(pref) ==
    /\ pc = "ready"
    /\ pref # sortSelectValue
    /\ sortSelectValue' = pref
    /\ lsSort' = pref
    /\ lsScores' = setScoresInStorage(
                      SortScores(pref, getScoresFromStorage(lsScores).recs))
    /\ LET d == DisplayScores(lsScores, pref, topScoreBox)
       IN /\ rows' = d.rows
          /\ topScoreBox' = d.box
          /\ uncaught' = (uncaught \/ d.threw)
    /\ UNCHANGED <<pc, lsUser, usernameValue, questions, shownGen,
                   fetchVars, resultSummary, newPlayerHidden, submitDisabled,
                   lastAlert, now>>

\* the change listener of the sort select
SortChange(pref) ==
    /\ pc = "ready"
    /\ pref # sortSelectValue
    /\ sortSelectValue' = pref
    /\ lsSort' = pref
    /\ LET d == DisplayScores(lsScores, pref, topScoreBox)
       IN /\ rows' = d.rows
          /\ topScoreBox' = d.box
          /\ uncaught' = (uncaught \/ d.threw)
    /\ UNCHANGED <<pc, lsScores, lsUser, usernameValue, questions, shownGen,
                   fetchVars, resultSummary, newPlayerHidden, submitDisabled,
                   lastAlert, now>>

\* the user checks the radio with the given value in question block i
SelectOption(i, value) ==
    /\ pc = "ready"
    /\ i \in 1..Len(questions)
    /\ \E o \in questions[i].opts : o.value = value
    /\ questions[i].sel # value
    /\ questions' = [questions EXCEPT ![i].sel = value]
    /\ UNCHANGED <<pc, uncaught, storageVars, usernameValue, sortSelectValue,
                   shownGen, fetchVars, boardVars, resultSummary,
                   newPlayerHidden, submitDisabled, lastAlert, now>>

\* handleFormSubmit, first loop: an unanswered block gets class invalid, an
\* answered one loses it
MarkInvalid(blocks) ==
    [i \in 1..Len(blocks) |-> [blocks[i] EXCEPT !.invalid = (blocks[i].sel = NoAnswer)]]

\* mutant of CorrectSelections: every checked input is counted
CorrectSelectionsChecked(blocks) ==
    Cardinality({i \in 1..Len(blocks) : blocks[i].sel # NoAnswer})

\* mutant of CorrectSelections: the selector matches the inputs that are
\* checked or carry data-correct
CorrectSelectionsEither(blocks) ==
    Cardinality({<<i, o>> \in (1..Len(blocks)) \X AnswerValues :
                    \E x \in blocks[i].opts :
                        x.value = o /\ (x.correct \/ x.value = blocks[i].sel)})

\* the checked inputs that carry data-correct="true"
CorrectSelections(blocks) ==
    Cardinality({i \in 1..Len(blocks) :
                    \E o \in blocks[i].opts : o.value = blocks[i].sel /\ o.correct})

\* mutant of saveScoreToStorage: the record is put first (unshift)
saveScoreUnshift(text, name, correct, total, ts) ==
    LET scores == getScoresFromStorage(text)
    IN IF scores.tag # "array"
       THEN [threw |-> TRUE, text |-> text]
       ELSE [threw |-> FALSE,
             text |-> setScoresInStorage(
                          <<Record(name, correct, total, ts)>> \o scores.recs)]

\* mutant of saveScoreToStorage: a record of no question is not pushed
saveScoreSkipsEmpty(text, name, correct, total, ts) ==
    LET scores == getScoresFromStorage(text)
    IN IF scores.tag # "array"
       THEN [threw |-> TRUE, text |-> text]
       ELSE [threw |-> FALSE,
             text |-> setScoresInStorage(
                          IF total = 0
                          THEN scores.recs
                          ELSE Append(scores.recs, Record(name, correct, total, ts)))]

\* saveScoreToStorage: the text it writes; threw when the stored value is
\* no array (push is missing) and nothing is written
saveScoreToStorage(text, name, correct, total, ts) ==
    LET scores == getScoresFromStorage(text)
    IN IF scores.tag # "array"
       THEN [threw |-> TRUE, text |-> text]
       ELSE [threw |-> FALSE,
             text |-> setScoresInStorage(
                          Append(scores.recs, Record(name, correct, total, ts)))]

\* the row handleFormSubmit appends before it saves (built from no record)
ProvisionalRow(name, correct, total) ==
    [name |-> name, correct |-> correct, total |-> total, ts |-> 0, top |-> FALSE]

\* mutant of HandleFormSubmit: the submit button stays enabled after a save
HandleFormSubmitStaysEnabled ==
    /\ pc = "ready"
    /\ ~submitDisabled
    /\ LET blocks == questions
           trimmed == Trim(usernameValue)
           totalQuestions == Len(blocks)
           correctSelections == CorrectSelections(blocks)
       IN IF \E i \in 1..Len(blocks) : blocks[i].sel = NoAnswer
          THEN /\ questions' = MarkInvalid(blocks)
               /\ lastAlert' = "answers"
               /\ UNCHANGED <<pc, uncaught, storageVars, boardVars,
                              resultSummary, newPlayerHidden, submitDisabled, now>>
          ELSE IF trimmed = <<>>
          THEN /\ questions' = MarkInvalid(blocks)
               /\ lastAlert' = "name"
               /\ UNCHANGED <<pc, uncaught, storageVars, boardVars,
                              resultSummary, newPlayerHidden, submitDisabled, now>>
          ELSE LET t == now + 1 IN
               /\ now' = t
               /\ questions' = MarkInvalid(blocks)
               /\ resultSummary' = [hidden |-> FALSE, name |-> trimmed,
                                    correct |-> correctSelections,
                                    total |-> totalQuestions]
               /\ LET saved == saveScoreToStorage(lsScores, trimmed,
                                       correctSelections, totalQuestions, t)
                      d == DisplayScores(saved.text, lsSort, topScoreBox)
                  IN IF saved.threw
                     THEN /\ rows' = Append(rows, ProvisionalRow(trimmed,
                                              correctSelections, totalQuestions))
                          /\ uncaught' = TRUE
                          /\ UNCHANGED <<lsScores, topScoreBox, newPlayerHidden,
                                         submitDisabled>>
                     ELSE /\ lsScores' = saved.text
                          /\ rows' = d.rows
                          /\ topScoreBox' = d.box
                          /\ uncaught' = uncaught
                          /\ newPlayerHidden' = FALSE
                          /\ submitDisabled' = submitDisabled
               /\ UNCHANGED <<pc, lsSort, lsUser, lastAlert>>
    /\ UNCHANGED <<usernameValue, sortSelectValue, shownGen, fetchVars>>

\* the submit listener of the form
HandleFormSubmit ==
    /\ pc = "ready"
    /\ ~submitDisabled
    /\ LET blocks == questions
           trimmed == Trim(usernameValue)
           totalQuestions == Len(blocks)
           correctSelections == CorrectSelections(blocks)
       IN IF \E i \in 1..Len(blocks) : blocks[i].sel = NoAnswer
          THEN /\ questions' = MarkInvalid(blocks)
               /\ lastAlert' = "answers"
               /\ UNCHANGED <<pc, uncaught, storageVars, boardVars,
                              resultSummary, newPlayerHidden, submitDisabled, now>>
          ELSE IF trimmed = <<>>
          THEN /\ questions' = MarkInvalid(blocks)
               /\ lastAlert' = "name"
               /\ UNCHANGED <<pc, uncaught, storageVars, boardVars,
                              resultSummary, newPlayerHidden, submitDisabled, now>>
          ELSE LET t == now + 1 IN
               /\ now' = t
               /\ questions' = MarkInvalid(blocks)
               /\ resultSummary' = [hidden |-> FALSE, name |-> trimmed,
                                    correct |-> correctSelections,
                                    total |-> totalQuestions]
               /\ LET saved == saveScoreToStorage(lsScores, trimmed,
                                       correctSelections, totalQuestions, t)
                      d == DisplayScores(saved.text, lsSort, topScoreBox)
                  IN IF saved.threw
                     THEN /\ rows' = Append(rows, ProvisionalRow(trimmed,
                                              correctSelections, totalQuestions))
                          /\ uncaught' = TRUE
                          /\ UNCHANGED <<lsScores, topScoreBox, newPlayerHidden,
                                         submitDisabled>>
                     ELSE /\ lsScores' = saved.text
                          /\ rows' = d.rows
                          /\ topScoreBox' = d.box
                          /\ uncaught' = uncaught
                          /\ newPlayerHidden' = FALSE
                          /\ submitDisabled' = TRUE
               /\ UNCHANGED <<pc, lsSort, lsUser, lastAlert>>
    /\ UNCHANGED <<usernameValue, sortSelectValue, shownGen, fetchVars>>

\* mutant of NewPlayer: the name field keeps its text
NewPlayerKeepsField ==
    /\ pc = "ready"
    /\ ~newPlayerHidden
    /\ started < MaxFetches
    /\ lsUser' = NoName
    /\ submitDisabled' = FALSE
    /\ newPlayerHidden' = TRUE
    /\ questions' = <<>>
    /\ shownGen' = 0
    /\ loadingHidden' = FALSE
    /\ questionsHidden' = TRUE
    /\ started' = started + 1
    /\ inflight' = inflight \cup {started + 1}
    /\ UNCHANGED <<pc, uncaught, lsScores, lsSort, usernameValue,
                   sortSelectValue, boardVars, resultSummary, lastAlert, now>>

\* the click listener of the New Player button (fetchQuestions included)
NewPlayer ==
    /\ pc = "ready"
    /\ ~newPlayerHidden
    /\ started < MaxFetches
    /\ usernameValue' = <<>>
    /\ lsUser' = NoName
    /\ submitDisabled' = FALSE
    /\ newPlayerHidden' = TRUE
    /\ questions' = <<>>
    /\ shownGen' = 0
    /\ loadingHidden' = FALSE
    /\ questionsHidden' = TRUE
    /\ started' = started + 1
    /\ inflight' = inflight \cup {started + 1}
    /\ UNCHANGED <<pc, uncaught, lsScores, lsSort, sortSelectValue, boardVars,
                   resultSummary, lastAlert, now>>

\* mutant of ClearScores: localStorage.clear() in place of removeItem
ClearScoresAll(ok) ==
    /\ pc = "ready"
    /\ IF ok
       THEN LET d == DisplayScores(NoText, "absent", topScoreBox)
            IN /\ lsScores' = NoText
               /\ lsSort' = "absent"
               /\ lsUser' = NoName
               /\ rows' = d.rows
               /\ topScoreBox' = d.box
               /\ uncaught' = (uncaught \/ d.threw)
       ELSE UNCHANGED <<lsScores, lsSort, lsUser, rows, topScoreBox, uncaught>>
    /\ UNCHANGED <<pc, usernameValue, sortSelectValue,
                   questions, shownGen, fetchVars, resultSummary,
                   newPlayerHidden, submitDisabled, lastAlert, now>>

\* mutant of ClearScores: the table is not rendered again
ClearScoresNoRender(ok) ==
    /\ pc = "ready"
    /\ IF ok
       THEN /\ lsScores' = NoText
            /\ UNCHANGED <<rows, topScoreBox, uncaught>>
       ELSE UNCHANGED <<lsScores, rows, topScoreBox, uncaught>>
    /\ UNCHANGED <<pc, lsSort, lsUser, usernameValue, sortSelectValue,
                   questions, shownGen, fetchVars, resultSummary,
                   newPlayerHidden, submitDisabled, lastAlert, now>>

\* the click listener of the Clear Scores button; ok is the confirm answer
ClearScores(ok) ==
    /\ pc = "ready"
    /\ IF ok
       THEN LET d == DisplayScores(NoText, lsSort, topScoreBox)
            IN /\ lsScores' = NoText
               /\ rows' = d.rows
               /\ topScoreBox' = d.box
               /\ uncaught' = (uncaught \/ d.threw)
       ELSE UNCHANGED <<lsScores, rows, topScoreBox, uncaught>>
    /\ UNCHANGED <<pc, lsSort, lsUser, usernameValue, sortSelectValue,
                   questions, shownGen, fetchVars, resultSummary,
                   newPlayerHidden, submitDisabled, lastAlert, now>>

\* the continuation of fetch number id: then/then on success, catch on any
\* failure; both end with showLoading(false)
FetchSettles(id, outcome) ==
    /\ id \in inflight
    /\ inflight' = inflight \ {id}
    /\ loadingHidden' = TRUE
    /\ questionsHidden' = FALSE
    /\ CASE outcome = "ok" ->
              \E results \in SeqsUpTo(ApiQuestions, MaxQuestions) :
                 /\ questions' = displayQuestions(results)
                 /\ shownGen' = id
         [] outcome = "noresults" ->
                 /\ questions' = <<>>
                 /\ shownGen' = 0
         [] OTHER -> UNCHANGED <<questions, shownGen>>
    /\ UNCHANGED <<pc, uncaught, storageVars, usernameValue, sortSelectValue,
                   started, boardVars, resultSummary, newPlayerHidden,
                   submitDisabled, lastAlert, now>>

Next ==
    \/ DOMContentLoaded
    \/ \E value \in NameInputs : UsernameInput(value)
    \/ \E pref \in SortPrefs : SortChange(pref)
    \/ \E i \in 1..MaxQuestions, value \in AnswerValues : SelectOption(i, value)
    \/ HandleFormSubmit
    \/ NewPlayer
    \/ \E ok \in BOOLEAN : ClearScores(ok)
    \/ \E id \in 1..MaxFetches, outcome \in FetchOutcomes : FetchSettles(id, outcome)

Spec == Init /\ [][Next]_vars

\* ------------------------------------------------- ranking specification
\* The scoreboard over a wide choice of persisted sequences: the page is
\* loaded with one of them and the sort preference is changed at will.
\* an earlier and a later instant: enough for every order and tie of two
RankTimes == {1, 2}

\* records a submission can have left: 0 <= correct <= total
RankRecords ==
    {r \in {Record(<<"a">>, c, t, ts) :
                c \in 0..MaxRankTotal, t \in 0..MaxRankTotal, ts \in RankTimes} :
        r.correct <= r.total}

PercentRecords ==
    {r \in {Record(<<"a">>, c, t, 1) :
                c \in 0..MaxPercentTotal, t \in 0..MaxPercentTotal} :
        r.correct <= r.total}

\* records are appended with the clock's value, which never runs backwards
Chronological(s) == \A i \in 1..(Len(s) - 1) : s[i].ts <= s[i + 1].ts

RankSeqs ==
    {s \in SeqsUpTo(RankRecords, MaxRankLen) : Chronological(s)}
    \cup {<<r>> : r \in PercentRecords}

InitRank ==
    /\ PageParsed
    /\ lsScores \in {Stringify(s) : s \in RankSeqs}
    /\ lsSort = "absent"
    /\ lsUser = NoName

NextRank ==
    \/ DOMContentLoaded
    \/ \E pref \in SortPrefs : SortChange(pref)

RankSpec == InitRank /\ [][NextRank]_vars

\* The scoreboard over records whose ratios differ by less than a percent:
\* 3/8 and 5/13 are both 38 percent, and so are ordered by a ratio the flag
\* does not see; 1/2 is above them with fewer correct answers and 0/0 has
\* no ratio.
FlagRecords ==
    {Record(<<"a">>, f[1], f[2], ts) :
        f \in {<<3, 8>>, <<5, 13>>, <<1, 2>>, <<0, 0>>}, ts \in RankTimes}

FlagSeqs ==
    {s \in SeqsUpTo(FlagRecords, MaxRankLen) : Chronological(s)}

InitFlag ==
    /\ PageParsed
    /\ lsScores \in {Stringify(s) : s \in FlagSeqs}
    /\ lsSort \in {"absent", "highest", "lowest"}
    /\ lsUser = NoName

FlagSpec == InitFlag /\ [][NextRank]_vars

\* ================================================================== claims
\* the serialized records under "scores", read off the stored text itself
PersistedItems == lsScores.items

\* the record a rendered row shows, in the serialized form
RowItem(row) == <<row.name, row.correct, row.total, row.ts>>

\* the name field holds nothing but whitespace
BlankName == \A k \in 1..Len(usernameValue) : usernameValue[k] = " "

SomeUnanswered == \E i \in 1..Len(questions) : questions[i].sel = NoAnswer

\* the preference in force: the stored one, newest when none is stored
CurrentPref == IF lsSort = "absent" THEN "newest" ELSE lsSort

\* ratio(x) <= ratio(y) for rows x, y, a total of 0 counting as ratio 0
RatioLeq(x, y) ==
    LET xn == IF x.total = 0 THEN 0 ELSE x.correct
        xd == IF x.total = 0 THEN 1 ELSE x.total
        yn == IF y.total = 0 THEN 0 ELSE y.correct
        yd == IF y.total = 0 THEN 1 ELSE y.total
    IN xn * yd <= yn * xd

\* round(100 * correct / total), halves up; 0 when total = 0
RoundedPercent(x) ==
    IF x.total = 0 THEN 0
    ELSE CHOOSE q \in 0..100 :
            /\ (2 * q - 1) * x.total <= 200 * x.correct
            /\ 200 * x.correct < (2 * q + 1) * x.total

\* C1: a submit with an unanswered question or a blank name is rejected: the
\* result summary, the persisted scores, the sort preference and the
\* scoreboard stay as they were, the submit button stays enabled and the
\* new-player button stays hidden.
C1_RejectedSubmit ==
    [][(HandleFormSubmit /\ (SomeUnanswered \/ BlankName)) =>
          /\ resultSummary' = resultSummary
          /\ lsScores' = lsScores
          /\ lsSort' = lsSort
          /\ rows' = rows
          /\ ~submitDisabled'
          /\ newPlayerHidden']_vars

\* a submit was rejected for its blank name while a question was answered
C1_Witness ==
    /\ lastAlert = "name"
    /\ Len(questions) > 0
    /\ ~SomeUnanswered
    /\ BlankName
    /\ Len(usernameValue) > 0
    /\ ~submitDisabled
    /\ resultSummary.hidden

\* C2: whatever is stored under "scores", loading it raises nothing: once
\* the page has loaded no exception has escaped and the listeners are live.
C2_LoadFailsClosed == pc # "unloaded" => (~uncaught /\ pc = "ready")

\* C3: once every fetch has settled, questions on display are those of the
\* most recently started fetch.
C3_LatestFetchShown ==
    (inflight = {} /\ shownGen # 0) => shownGen = started

\* C4: every step leaves the persisted sequence as it was, or adds one
\* record at its end, or empties it.
C4_AppendOnlyOrClear ==
    [][\/ PersistedItems' = PersistedItems
       \/ /\ Len(PersistedItems') = Len(PersistedItems) + 1
          /\ SubSeq(PersistedItems', 1, Len(PersistedItems)) = PersistedItems
       \/ PersistedItems' = <<>>]_vars

\* a record was appended behind the two the page was loaded with
C4_Witness ==
    /\ Len(PersistedItems) = 3
    /\ ~resultSummary.hidden
    /\ PersistedItems[3][1] = resultSummary.name

\* C5: the rendered rows are a permutation of the persisted records.
C5_RowsArePermutation ==
    pc = "ready" =>
        /\ Len(rows) = Len(PersistedItems)
        /\ \A i \in 1..Len(PersistedItems) :
              Cardinality({j \in 1..Len(rows) : RowItem(rows[j]) = PersistedItems[i]})
            = Cardinality({j \in 1..Len(PersistedItems) :
                              PersistedItems[j] = PersistedItems[i]})

\* three records, two of them equal, rendered in another order than stored
C5_Witness ==
    /\ pc = "ready"
    /\ Len(rows) = 3
    /\ PersistedItems[1] = PersistedItems[2]
    /\ PersistedItems[3] # PersistedItems[1]
    /\ RowItem(rows[1]) = PersistedItems[3]

\* C6: the rendered order follows the preference: newest by non-increasing
\* timestamp, oldest by non-decreasing timestamp, highest by non-increasing
\* ratio with equal ratios newest first, lowest by non-decreasing ratio with
\* equal ratios oldest first.
C6_OrderFollowsPreference ==
    pc = "ready" =>
        \A i \in 1..(Len(rows) - 1) :
            LET x == rows[i]
                y == rows[i + 1]
            IN CASE CurrentPref = "newest" -> x.ts >= y.ts
                 [] CurrentPref = "oldest" -> x.ts <= y.ts
                 [] CurrentPref = "highest" ->
                        /\ RatioLeq(y, x)
                        /\ RatioLeq(x, y) => x.ts >= y.ts
                 [] CurrentPref = "lowest" ->
                        /\ RatioLeq(x, y)
                        /\ RatioLeq(y, x) => x.ts <= y.ts

\* under highest, two rows of equal ratio and different totals follow a row
\* of a larger ratio, the newer of the two first although it was stored last
C6_Witness ==
    /\ pc = "ready"
    /\ lsSort = "highest"
    /\ Len(rows) = 3
    /\ ~RatioLeq(rows[1], rows[2])
    /\ RatioLeq(rows[2], rows[3]) /\ RatioLeq(rows[3], rows[2])
    /\ rows[2].total # rows[3].total
    /\ rows[2].total # 0 /\ rows[3].total # 0
    /\ rows[2].ts > rows[3].ts
    /\ RowItem(rows[2]) = PersistedItems[3]

\* the rows flagged as top scorers, as records
TopItems == {RowItem(rows[i]) : i \in {j \in 1..Len(rows) : rows[j].top}}

\* C7: as long as the persisted sequence stays the same, a re-rendering
\* under another preference shows the same topPercent and topCount and flags
\* the same records.
C7_TopIndependentOfPreference ==
    [][(pc = "ready" /\ pc' = "ready" /\ lsScores' = lsScores) =>
          /\ topScoreBox' = topScoreBox
          /\ TopItems' = TopItems]_vars

\* two records at 100% and one below, rendered under lowest: 100% and 2
C7_Witness ==
    /\ pc = "ready"
    /\ lsSort = "lowest"
    /\ Len(rows) = 3
    /\ topScoreBox.percent = 100
    /\ topScoreBox.count = 2
    /\ ~rows[1].top /\ rows[2].top /\ rows[3].top

\* C8: for a non-empty persisted sequence topPercent is the largest percent
\* of a record, a row is flagged exactly when its percent is topPercent, and
\* topCount is the number of flagged rows, at least 1.
C8_TopIsGlobalMaximum ==
    (pc = "ready" /\ Len(PersistedItems) > 0) =>
        /\ ~topScoreBox.hidden
        /\ \E i \in 1..Len(rows) : RoundedPercent(rows[i]) = topScoreBox.percent
        /\ \A i \in 1..Len(rows) : RoundedPercent(rows[i]) <= topScoreBox.percent
        /\ \A i \in 1..Len(rows) :
              rows[i].top <=> (RoundedPercent(rows[i]) = topScoreBox.percent)
        /\ topScoreBox.count = Cardinality({i \in 1..Len(rows) : rows[i].top})
        /\ topScoreBox.count >= 1

\* three records of percents 50, 100 and 0 in stored order: 100% and 1
C8_Witness ==
    /\ pc = "ready"
    /\ Len(PersistedItems) = 3
    /\ PersistedItems[1][2] = 1 /\ PersistedItems[1][3] = 2
    /\ PersistedItems[2][2] = 2 /\ PersistedItems[2][3] = 2
    /\ PersistedItems[3][2] = 0 /\ PersistedItems[3][3] = 1
    /\ topScoreBox.percent = 100
    /\ topScoreBox.count = 1

C10_ClearScoresFrame ==
    [][/\ ClearScores(TRUE) =>
             /\ lsScores'.kind = "absent"
             /\ PersistedItems' = <<>>
             /\ lsSort' = lsSort
             /\ lsUser' = lsUser
             /\ rows' = <<>>
             /\ topScoreBox'.hidden
             /\ topScoreBox'.percent = NoPercent
       /\ ClearScores(FALSE) => UNCHANGED vars]_vars

\* scores were cleared after a submission, with a preference and a name kept
C10_Witness ==
    /\ pc = "ready"
    /\ lsScores = NoText
    /\ ~resultSummary.hidden
    /\ lsSort = "highest"
    /\ lsUser # NoName
    /\ rows = <<>>
    /\ topScoreBox.hidden

\* the record appended last
LastItem == PersistedItems[Len(PersistedItems)]

\* name is the content of the name field without the whitespace around it
IsTrimmedField(name) ==
    \E i, j \in 1..Len(usernameValue) :
        /\ name = SubSeq(usernameValue, i, j)
        /\ usernameValue[i] # " " /\ usernameValue[j] # " "
        /\ \A k \in 1..Len(usernameValue) :
              (k < i \/ k > j) => usernameValue[k] = " "

\* C11: an accepted submission appends exactly one record: its total is the
\* number of question blocks on display, its correct the number of blocks
\* whose checked option is the correct answer, its name the trimmed name.
C11_AcceptedSubmitRecord ==
    [][(HandleFormSubmit /\ ~SomeUnanswered /\ ~BlankName) =>
          /\ Len(PersistedItems') = Len(PersistedItems) + 1
          /\ IsTrimmedField(LastItem'[1])
          /\ LastItem'[2] =
                Cardinality({i \in 1..Len(questions) :
                    \E o \in questions[i].opts :
                        o.correct /\ o.value = questions[i].sel})
          /\ LastItem'[3] = Len(questions)]_vars

\* a question answered wrongly was submitted under a name typed with
\* spaces around it: the record 0/1 with the bare name was appended
C11_Witness ==
    /\ submitDisabled
    /\ Len(questions) = 1
    /\ questions[1].sel = "B"
    /\ Len(usernameValue) = 3
    /\ Len(PersistedItems) = 3
    /\ LastItem = <<(<<"a">>), 0, 1, now>>

\* C12: every persisted record has 0 <= correct <= total.
C12_CorrectWithinTotal ==
    \A i \in 1..Len(PersistedItems) :
        /\ 0 <= PersistedItems[i][2]
        /\ PersistedItems[i][2] <= PersistedItems[i][3]

\* a submission with the correct answer checked left the record 1/1
C12_Witness ==
    /\ submitDisabled
    /\ Len(questions) = 1
    /\ questions[1].sel = "A"
    /\ Len(PersistedItems) = 1
    /\ LastItem[2] = 1 /\ LastItem[3] = 1

\* C13: when a fetch fails the loading indicator is hidden, the question
\* container holds no question and no exception escapes the continuation.
C13_FailedFetchShowsNothing ==
    [][(\E id \in 1..MaxFetches :
           FetchSettles(id, "rejected") \/ FetchSettles(id, "noresults")) =>
          /\ loadingHidden'
          /\ questions' = <<>>
          /\ uncaught' = uncaught]_vars

\* C14: rendering the scoreboard never writes the persisted records: the
\* load and a sort change leave the text under "scores" as it was, and the
\* re-rendering after a submission leaves the earlier records in their
\* stored order, whatever order the table shows.
C14_RenderingKeepsStorage ==
    [][/\ (DOMContentLoaded \/ \E pref \in SortPrefs : SortChange(pref)) =>
             lsScores' = lsScores
       /\ HandleFormSubmit =>
             SubSeq(PersistedItems', 1, Len(PersistedItems)) = PersistedItems]_vars

\* the table was re-rendered under highest in another order than the stored
\* one, which is still the one the page was loaded with
C14_Witness ==
    /\ pc = "ready"
    /\ lsSort = "highest"
    /\ sortSelectValue = "highest"
    /\ Len(rows) = 2
    /\ RowItem(rows[1]) = PersistedItems[2]
    /\ RowItem(rows[2]) = PersistedItems[1]
    /\ PersistedItems[1] # PersistedItems[2]
    /\ resultSummary.hidden

\* the records a stored text holds, field by field
ItemsAsRecords(items) ==
    [i \in 1..Len(items) |->
        [name |-> items[i][1], correct |-> items[i][2],
         total |-> items[i][3], ts |-> items[i][4]]]

C16_NewPlayerForgetsName ==
    [][/\ NewPlayer =>
             /\ lsUser' = NoName
             /\ usernameValue' = <<>>
             /\ lsScores' = lsScores
             /\ lsSort' = lsSort
       /\ BlankName => Len(PersistedItems') <= Len(PersistedItems)]_vars

\* after newPlayer a submit with every question answered and the name field
\* still empty was refused with the name alert
C16_Witness ==
    /\ started = 2
    /\ lsUser = NoName
    /\ usernameValue = <<>>
    /\ lastAlert = "name"
    /\ ~submitDisabled
    /\ newPlayerHidden
    /\ Len(questions) = 1
    /\ questions[1].sel # NoAnswer
    /\ Len(PersistedItems) = 3

\* C17: in every reachable state in which at least one fetch is in flight,
\* the loading indicator is visible and the question container is hidden.
C17_LoadingWhileInFlight ==
    inflight # {} => (~loadingHidden /\ questionsHidden)

\* C18: a step that appends a record appends one, is taken with the submit
\* button enabled and leaves it disabled, and only newPlayer enables the
\* button again; so the submissions accepted since the page was loaded
\* (the clock ticks once for each) never outnumber the attempts started
\* (one at load, one for each newPlayer), and stay below that number while
\* the button is enabled.
C18_OneRecordPerAttempt ==
    [][/\ Len(PersistedItems') > Len(PersistedItems) =>
             /\ Len(PersistedItems') = Len(PersistedItems) + 1
             /\ ~submitDisabled
             /\ submitDisabled'
       /\ (submitDisabled /\ ~submitDisabled') => NewPlayer
       /\ pc' = "ready" =>
             now' - 1 <= started' - (IF submitDisabled' THEN 0 ELSE 1)]_vars

\* two attempts, each with its one record, the button disabled again
C18_Witness ==
    /\ started = 2
    /\ now = 3
    /\ submitDisabled
    /\ ~newPlayerHidden
    /\ Len(PersistedItems) = 4
    /\ PersistedItems[3][4] = 2
    /\ PersistedItems[4][4] = 3

\* C19 as stated: every record in storage has total >= 1 (a submit while no
\* question is displayed appends no record).
C19_TotalAtLeastOne ==
    \A i \in 1..Len(PersistedItems) : PersistedItems[i][3] >= 1

\* C19 amended: a record appended by a submission has total >= 1 exactly
\* when at least one question block was displayed at the submit; a submit
\* with a non-blank name while no question is displayed is accepted and
\* appends a record with correct = 0 and total = 0.
C19_TotalIsBlocksDisplayed ==
    [][/\ Len(PersistedItems') > Len(PersistedItems) =>
             (LastItem'[3] >= 1 <=> Len(questions) >= 1)
       /\ (HandleFormSubmit /\ Len(questions) = 0 /\ ~BlankName) =>
             /\ Len(PersistedItems') = Len(PersistedItems) + 1
             /\ LastItem'[2] = 0
             /\ LastItem'[3] = 0]_vars

\* a submit before any question arrived stored and showed a score of 0 / 0
C19_Witness ==
    /\ submitDisabled
    /\ Len(questions) = 0
    /\ inflight = {1}
    /\ Len(PersistedItems) >= 1
    /\ LastItem[2] = 0
    /\ LastItem[3] = 0
    /\ ~resultSummary.hidden
    /\ resultSummary.total = 0

\* C20: once the page is loaded, after every handler the score table has one
\* row for each persisted record and no other (none built by the submit
\* handler before saving, which has no timestamp), each record as often as
\* it is stored, in the order of the current sort preference.
C20_BoardIsPersisted ==
    pc # "unloaded" =>
        /\ Len(rows) = Len(PersistedItems)
        /\ \A j \in 1..Len(rows) :
              /\ rows[j].ts # 0
              /\ Cardinality({i \in 1..Len(PersistedItems) :
                                 PersistedItems[i] = RowItem(rows[j])})
                  = Cardinality({k \in 1..Len(rows) :
                                 RowItem(rows[k]) = RowItem(rows[j])})
        /\ \A j \in 1..(Len(rows) - 1) :
              LET x == rows[j]
                  y == rows[j + 1]
              IN \/ CurrentPref = "newest" /\ x.ts >= y.ts
                 \/ CurrentPref = "oldest" /\ x.ts <= y.ts
                 \/ /\ CurrentPref = "highest"
                    /\ RatioLeq(y, x)
                    /\ RatioLeq(x, y) => x.ts >= y.ts
                 \/ /\ CurrentPref = "lowest"
                    /\ RatioLeq(y, x) => x.ts <= y.ts
                    /\ RatioLeq(x, y)

\* after an accepted submit under highest the new record, stored last, is
\* shown first and the table has the three stored records
C20_Witness ==
    /\ pc = "ready"
    /\ submitDisabled
    /\ ~resultSummary.hidden
    /\ lsSort = "highest"
    /\ Len(rows) = 3
    /\ Len(PersistedItems) = 3
    /\ RowItem(rows[1]) = PersistedItems[3]
    /\ rows[1].name = resultSummary.name
    /\ rows[1].ts = now

\* C21: for a non-empty table, under highest the rows flagged as top scorers
\* are a prefix of the rendered order and the first row is flagged; under
\* lowest they are a suffix and the last row is flagged.
C21_FlagsFollowRanking ==
    (pc = "ready" /\ Len(rows) >= 1) =>
        /\ CurrentPref = "highest" =>
              /\ rows[1].top
              /\ \A i \in 2..Len(rows) : rows[i].top => rows[i - 1].top
        /\ CurrentPref = "lowest" =>
              /\ rows[Len(rows)].top
              /\ \A i \in 1..(Len(rows) - 1) : rows[i].top => rows[i + 1].top

\* under highest the flagged prefix holds two rows of different ratio and
\* the same percent, 5/13 before 3/8, and a row below them is not flagged
C21_Witness ==
    /\ pc = "ready"
    /\ lsSort = "highest"
    /\ Len(rows) = 3
    /\ rows[1].top
    /\ rows[2].top
    /\ ~rows[3].top
    /\ ~RatioLeq(rows[1], rows[2])
    /\ RoundedPercent(rows[1]) = RoundedPercent(rows[2])
    /\ PersistedItems[1][3] = 8

====
